---------------------------- MODULE Spec2Model ----------------------------
(***************************************************************************)
(* A model of medImageUtils.py: resize_image, extract_2d_slices and the    *)
(* dispatcher main (single-file and folder mode).                          *)
(*                                                                         *)
(* Paths and file names are sequences of one-character strings.  Python    *)
(* floats are IEEE-754 binary64 values, kept as a 53-bit significand (an   *)
(* arbitrary-precision natural, little-endian digits in base 2^14) and a   *)
(* binary exponent, with round-to-nearest-even after every operation.      *)
(***************************************************************************)
EXTENDS Integers, Sequences, FiniteSets, TLC

(***************************************************************************)
(* Arbitrary-precision naturals: little-endian digit sequences, no leading *)
(* (most significant) zero digit; <<>> is zero.                            *)
(***************************************************************************)
DigitBits == 14
Base == 2^DigitBits

RECURSIVE BigFromInt(_)
BigFromInt(k) == IF k = 0 THEN <<>> ELSE <<k % Base>> \o BigFromInt(k \div Base)

RECURSIVE BigTrim(_)
BigTrim(a) ==
  IF a = <<>> THEN <<>>
  ELSE IF a[Len(a)] = 0 THEN BigTrim(SubSeq(a, 1, Len(a) - 1)) ELSE a

RECURSIVE BigMulSmallC(_, _, _)
BigMulSmallC(a, k, carry) ==
  IF a = <<>> THEN BigFromInt(carry)
  ELSE LET t == a[1] * k + carry
       IN  <<t % Base>> \o BigMulSmallC(Tail(a), k, t \div Base)

\* a * k for a digit k (0 <= k < Base)
BigMulSmall(a, k) == BigTrim(BigMulSmallC(a, k, 0))

RECURSIVE BigAddC(_, _, _)
BigAddC(a, b, carry) ==
  IF a = <<>> /\ b = <<>> THEN BigFromInt(carry)
  ELSE LET x == IF a = <<>> THEN 0 ELSE a[1]
           y == IF b = <<>> THEN 0 ELSE b[1]
           t == x + y + carry
       IN  <<t % Base>> \o BigAddC(IF a = <<>> THEN a ELSE Tail(a),
                                   IF b = <<>> THEN b ELSE Tail(b),
                                   t \div Base)

BigAdd(a, b) == BigTrim(BigAddC(a, b, 0))

\* a - 1 for a > 0
RECURSIVE BigDecC(_)
BigDecC(a) ==
  IF a[1] > 0 THEN <<a[1] - 1>> \o Tail(a)
  ELSE <<Base - 1>> \o BigDecC(Tail(a))

BigDec(a) == BigTrim(BigDecC(a))

Zeros(n) == [i \in 1..n |-> 0]

\* a * Base^n
BigShiftDigits(a, n) == IF a = <<>> THEN <<>> ELSE Zeros(n) \o a

RECURSIVE BigMul(_, _)
BigMul(a, b) ==
  IF b = <<>> \/ a = <<>> THEN <<>>
  ELSE BigAdd(BigMulSmall(a, b[1]), BigShiftDigits(BigMul(a, Tail(b)), 1))

\* Division by a digit d (0 < d <= Base), most significant digit first:
\* [q |-> a div d, r |-> a mod d].
RECURSIVE BigDivSmallR(_, _, _)
BigDivSmallR(a, d, i) ==
  IF i > Len(a) THEN [q |-> <<>>, r |-> 0]
  ELSE LET hi == BigDivSmallR(a, d, i + 1)
           t  == hi.r * Base + a[i]
       IN  [q |-> <<t \div d>> \o hi.q, r |-> t % d]

BigDivSmall(a, d) ==
  LET x == BigDivSmallR(a, d, 1) IN [q |-> BigTrim(x.q), r |-> x.r]

RECURSIVE IntBitLen(_)
IntBitLen(k) == IF k = 0 THEN 0 ELSE 1 + IntBitLen(k \div 2)

BigBitLen(a) ==
  IF a = <<>> THEN 0 ELSE (Len(a) - 1) * DigitBits + IntBitLen(a[Len(a)])

BigIsOdd(a) == a # <<>> /\ a[1] % 2 = 1

\* [q |-> a div 2^n, exact |-> (a mod 2^n = 0)]
BigShiftRight(a, n) ==
  LET nd   == n \div DigitBits
      nb   == n % DigitBits
      low  == SubSeq(a, 1, IF nd < Len(a) THEN nd ELSE Len(a))
      high == SubSeq(a, nd + 1, Len(a))
      x    == BigDivSmall(high, 2^nb)
  IN  [q |-> x.q, exact |-> (x.r = 0 /\ \A i \in 1..Len(low) : low[i] = 0)]

(***************************************************************************)
(* Python floats.  A positive float is [sig, exp] with value sig * 2^exp   *)
(* and 2^52 <= sig < 2^53; the values of this program stay far from the    *)
(* overflow and underflow thresholds.                                      *)
(***************************************************************************)
MantBits == 53
GuardDigits == 5

\* The one element of a singleton set.  An operator that uses an
\* intermediate result several times takes it from a singleton set, so that
\* it is computed once: Only({F(v) : v \in {e}}) is F(e).
Only(S) == CHOOSE v \in S : TRUE

\* Rounding, last step: the truncated significand, incremented when the
\* dropped part calls for it, and renormalised when that carries into bit 54.
FRoundUp(trunc, up, e) ==
  Only({ IF BigBitLen(sig) > MantBits
           THEN [sig |-> BigShiftRight(sig, 1).q, exp |-> e + 1]
           ELSE [sig |-> sig, exp |-> e]
         : sig \in {IF up THEN BigAdd(trunc, <<1>>) ELSE trunc} })

\* y.q holds the significand and, below it, the round bit; sticky tells
\* whether anything nonzero was dropped below the round bit.  Ties go to the
\* even significand.
FRoundBits(y, sticky, e) ==
  Only({ FRoundUp(trunc, BigIsOdd(y.q) /\ (sticky \/ BigIsOdd(trunc)), e)
         : trunc \in {BigShiftRight(y.q, 1).q} })

\* x = [q, r]: the quotient (at least MantBits + 1 bits) and the remainder
FRoundQuotient(x, e) ==
  Only({ Only({ FRoundBits(y, ~y.exact \/ x.r # 0, e + sh)
                : y \in {BigShiftRight(x.q, sh - 1)} })
         : sh \in {BigBitLen(x.q) - MantBits} })

\* The float nearest to (n / d) * 2^e, ties to even; n a positive natural,
\* d a digit.
FRound(n, d, e) ==
  Only({ FRoundQuotient(x, e - GuardDigits * DigitBits)
         : x \in {BigDivSmall(BigShiftDigits(n, GuardDigits), d)} })

\* float(k) for an int k > 0
FromInt(k) == FRound(BigFromInt(k), 1, 0)

\* a / b for ints a > 0, b > 0 (Python's true division, correctly rounded)
TrueDiv(a, b) == FRound(BigFromInt(a), b, 0)

\* x * y for two floats
FMul(x, y) ==
  Only({ FRound(BigMul(a.sig, b.sig), 1, a.exp + b.exp) : a \in {x}, b \in {y} })

(***************************************************************************)
(* Strings: sequences of one-character strings.  None is a value no string *)
(* equals (its one element is not a character).                            *)
(***************************************************************************)
None == <<"None">>

\* str.rfind for one character: the last position of ch in p, 0 when absent
RFind(p, ch) ==
  LET hits == {i \in 1..Len(p) : p[i] = ch}
  IN  IF hits = {} THEN 0 ELSE CHOOSE i \in hits : \A j \in hits : j <= i

\* os.path.basename
basename(p) == SubSeq(p, RFind(p, "/") + 1, Len(p))

\* (mutant) the extension taken from the first dot of the last component
splitext_FirstDot(p) ==
  LET sepIndex == RFind(p, "/")
      dots     == {i \in (sepIndex + 2)..Len(p) : p[i] = "."}
      dotIndex == CHOOSE i \in dots : \A j \in dots : i <= j
  IN  IF dots = {} THEN <<p, <<>>>>
      ELSE <<SubSeq(p, 1, dotIndex - 1), SubSeq(p, dotIndex, Len(p))>>

\* os.path.splitext: <<root, ext>>; the extension starts at the last dot of
\* the last path component, leading dots of that component not counted.
splitext(p) ==
  LET sepIndex == RFind(p, "/")
      dotIndex == RFind(p, ".")
  IN  IF /\ dotIndex > sepIndex
         /\ \E k \in (sepIndex + 1)..(dotIndex - 1) : p[k] # "."
        THEN <<SubSeq(p, 1, dotIndex - 1), SubSeq(p, dotIndex, Len(p))>>
        ELSE <<p, <<>>>>

\* os.path.join of two components
join(a, b) ==
  IF b # <<>> /\ b[1] = "/" THEN b
  ELSE IF a = <<>> \/ a[Len(a)] = "/" THEN a \o b
  ELSE a \o <<"/">> \o b

\* s[1:]
SliceFrom1(s) == SubSeq(s, 2, Len(s))

\* str.endswith for one suffix, and for a tuple of suffixes
endswith1(s, suf) ==
  Len(suf) <= Len(s) /\ SubSeq(s, Len(s) - Len(suf) + 1, Len(s)) = suf

endswith(s, sufs) == \E k \in 1..Len(sufs) : endswith1(s, sufs[k])

\* the suffixes folder mode accepts
ImageSuffixes ==
  << <<".", "n", "i", "i">>,
     <<".", "n", "i", "i", ".", "g", "z">>,
     <<".", "m", "h", "a">>,
     <<".", "m", "h", "d">> >>

(***************************************************************************)
(* The state: main's position, the parsed arguments, the input files, the  *)
(* output directory's contents, and what the per-file calls did.           *)
(***************************************************************************)
VARIABLES
  pc,       \* "start", "loop" (folder mode, between two files), "done", "error"
  args,     \* the parsed command line
  disk,     \* input path -> the image stored there
  listing,  \* os.listdir(folderPath), in the order the file system gives
  idx,      \* folder mode: position in listing of the next file name
  fs,       \* output path -> the content last written there
  ret,      \* the value the last per-file call returned
  slices,   \* the list slices of the last extract_2d_slices call
  calls     \* the per-file calls made so far, in order: [path, ok, wrote]

vars == <<pc, args, disk, listing, idx, fs, ret, slices, calls>>

\* f with the writes of w (a sequence of [path, content]) applied in order
RECURSIVE WriteAll(_, _)
WriteAll(f, w) ==
  IF w = <<>> THEN f
  ELSE WriteAll([p \in DOMAIN f \cup {w[1].path} |->
                   IF p = w[1].path THEN w[1].content ELSE f[p]], Tail(w))

(***************************************************************************)
(* resize_image                                                            *)
(***************************************************************************)
\* (mutant) the size ratio inverted
AxisSpacing_Inverted(spacing, size, newsize) == FMul(spacing, TrueDiv(newsize, size))

\* One axis of new_spacing: original_spacing * (original_size / new_size)
AxisSpacing(spacing, size, newsize) == FMul(spacing, TrueDiv(size, newsize))

\* The list new_spacing (lines 24-28); the third entry is 1.0 when new_size
\* has two entries.
NewSpacing(image, new_size) ==
  << AxisSpacing(image.spacing[1], image.size[1], new_size[1]),
     AxisSpacing(image.spacing[2], image.size[2], new_size[2]),
     IF Len(new_size) > 2
       THEN AxisSpacing(image.spacing[3], image.size[3], new_size[3])
       ELSE FromInt(1) >>

\* The divisors lines 25-27 evaluate
UsedDims(new_size) == IF Len(new_size) > 2 THEN {1, 2, 3} ELSE {1, 2}

ResizedName(base_name, output_format) ==
  base_name \o <<"_", "r", "e", "s", "i", "z", "e", "d", ".">> \o output_format

MetaName(base_name) ==
  base_name \o <<"_", "r", "e", "s", "i", "z", "e", "d", "_", "m", "e", "t", "a",
                 ".", "j", "s", "o", "n">>

\* (mutant) the metadata file written before the new spacing is computed
resize_image_MetaFirst(image_path, new_size, output_path, output_format) ==
  LET image == disk[image_path]
      base_name == splitext(basename(image_path))[1]
      meta == [path |-> join(output_path, MetaName(base_name)),
               content |-> [kind |-> "meta", original_size |-> image.size,
                            original_spacing |-> image.spacing,
                            original_direction |-> image.direction,
                            original_origin |-> image.origin]]
  IN  IF image.fault = "read" THEN [ok |-> FALSE, writes |-> <<>>, ret |-> <<>>]
      ELSE [ok |-> FALSE, writes |-> <<meta>>, ret |-> <<>>]

\* The call's outcome: ok, the files written in order, the returned paths.
resize_image(image_path, new_size, output_path, output_format) ==
  LET image  == disk[image_path]
      raised == [ok |-> FALSE, writes |-> <<>>, ret |-> <<>>]
  IN  IF image.fault = "read" THEN raised
      ELSE IF \E i \in UsedDims(new_size) : new_size[i] = 0 THEN raised
      ELSE
        LET new_spacing == NewSpacing(image, new_size)
            resized_image == [kind |-> "image", size |-> new_size,
                              spacing |-> new_spacing, origin |-> image.origin,
                              direction |-> image.direction]
            metadata == [kind |-> "meta", original_size |-> image.size,
                         original_spacing |-> image.spacing,
                         original_direction |-> image.direction,
                         original_origin |-> image.origin]
            fmt == IF output_format = None
                     THEN SliceFrom1(splitext(image_path)[2])
                     ELSE output_format
            base_name == splitext(basename(image_path))[1]
            output_image_path == join(output_path, ResizedName(base_name, fmt))
            output_meta_path  == join(output_path, MetaName(base_name))
        IN  IF image.fault = "write" THEN raised
            ELSE [ok |-> TRUE,
                  writes |-> << [path |-> output_image_path, content |-> resized_image],
                                [path |-> output_meta_path, content |-> metadata] >>,
                  ret |-> <<output_image_path, output_meta_path>>]

(***************************************************************************)
(* extract_2d_slices                                                       *)
(***************************************************************************)
\* sitk.GetArrayFromImage: the array's axes are the image's, reversed
ArrayShape(image) == <<image.size[3], image.size[2], image.size[1]>>

\* range(start, end) as a list
RECURSIVE Range(_, _)
Range(start, end) ==
  IF start >= end THEN <<>> ELSE <<start>> \o Range(start + 1, end)

Max(a, b) == IF a >= b THEN a ELSE b
Min(a, b) == IF a <= b THEN a ELSE b

\* str(i) for an int i
RECURSIVE NatToStr(_)
NatToStr(i) ==
  LET d == <<"0", "1", "2", "3", "4", "5", "6", "7", "8", "9">>
  IN  IF i < 10 THEN <<d[i + 1]>> ELSE NatToStr(i \div 10) \o <<d[(i % 10) + 1]>>

IntToStr(i) == IF i < 0 THEN <<"-">> \o NatToStr(-i) ELSE NatToStr(i)

Views == <<"axial", "coronal", "sagittal">>

ViewStr(view) ==
  CASE view = "axial"    -> <<"a", "x", "i", "a", "l">>
    [] view = "coronal"  -> <<"c", "o", "r", "o", "n", "a", "l">>
    [] view = "sagittal" -> <<"s", "a", "g", "i", "t", "t", "a", "l">>

\* The array axis a view indexes, 0-based as in the code
ViewAxis(view) ==
  CASE view = "axial" -> 0 [] view = "coronal" -> 1 [] view = "sagittal" -> 2

\* (mutant) the loop stops one index early
WindowEnd_Exclusive(extent, center, n) ==
  IF extent <= center + n \div 2 THEN extent ELSE center + n \div 2

\* start and end of a view's loop (lines 82-83, 88-89, 94-95)
WindowStart(center, n) == Max(0, center - n \div 2)
WindowEnd(extent, center, n) == Min(extent, center + n \div 2 + 1)

\* f"{view}_{i}"
SliceName(view, i) == ViewStr(view) \o <<"_">> \o IntToStr(i)

\* The entries one view appends to slices: the name and the plane taken
ViewSlices(view, shape, location, n) ==
  LET axis   == ViewAxis(view)
      center == location[axis + 1]
      r      == Range(WindowStart(center, n), WindowEnd(shape[axis + 1], center, n))
  IN  [k \in 1..Len(r) |->
         [view |-> view, name |-> SliceName(view, r[k]), axis |-> axis, index |-> r[k]]]

\* The list slices after the loop over the views (lines 76-97)
AllSlices(shape, location, n) ==
  ViewSlices(Views[1], shape, location, n)
    \o ViewSlices(Views[2], shape, location, n)
    \o ViewSlices(Views[3], shape, location, n)

\* (mutant) the midpoint rounded up
Center_RoundedUp(shape, location) ==
  IF location = None THEN [k \in 1..Len(shape) |-> (shape[k] + 1) \div 2] ELSE location

\* (mutant) a given location clamped into the array
Center_Clamped(shape, location) ==
  IF location = None THEN [k \in 1..Len(shape) |-> shape[k] \div 2]
  ELSE [k \in 1..Len(shape) |->
          IF location[k] < 0 THEN 0
          ELSE IF location[k] > shape[k] - 1 THEN shape[k] - 1 ELSE location[k]]

\* location, defaulted to the array's midpoint (lines 72-73)
Center(shape, location) ==
  IF location = None THEN [k \in 1..Len(shape) |-> shape[k] \div 2] ELSE location

SliceFile(output_path, base_name, name) ==
  join(output_path, base_name \o <<"_">> \o name \o <<".", "p", "n", "g">>)

\* The call's outcome: ok, the list slices, the files written in order, the
\* returned list output_files.
extract_2d_slices(image_path, location, n, output_path) ==
  LET image == disk[image_path]
  IN  IF image.fault = "read"
        THEN [ok |-> FALSE, slices |-> <<>>, writes |-> <<>>, ret |-> <<>>]
        ELSE
          LET shape  == ArrayShape(image)
              sl     == AllSlices(shape, Center(shape, location), n)
              base_name == splitext(basename(image_path))[1]
              file(k) == SliceFile(output_path, base_name, sl[k].name)
          IN  [ok |-> TRUE,
               slices |-> sl,
               writes |-> [k \in 1..Len(sl) |->
                             [path |-> file(k),
                              content |-> [kind |-> "png", of |-> image_path,
                                           axis |-> sl[k].axis, index |-> sl[k].index]]],
               ret |-> [k \in 1..Len(sl) |-> file(k)]]

(***************************************************************************)
(* main: the dispatch after parse_args (lines 136-152)                     *)
(***************************************************************************)
\* the record of one per-file call: its input, whether it returned, and the
\* paths it wrote
Call(path, r) ==
  [path |-> path, ok |-> r.ok, wrote |-> {r.writes[k].path : k \in 1..Len(r.writes)}]

\* (mutant) the per-file call wrapped in try/except, the loop going on
AfterCall_Caught(ok) == "loop"

\* where the loop over the listing goes after a per-file call: no exception
\* is caught, so a call that raises ends main
AfterCall(ok) == IF ok THEN "loop" ELSE "error"

\* lines 137-138: resize one image
ResizeImage ==
  /\ pc = "start"
  /\ args.command = "resize"
  /\ args.imagePath # None
  /\ \E r \in {resize_image(args.imagePath, args.newSize, args.outputPath,
                            args.outputFormat)} :
         /\ fs' = WriteAll(fs, r.writes)
         /\ ret' = r.ret
         /\ pc' = IF r.ok THEN "done" ELSE "error"
         /\ calls' = Append(calls, Call(args.imagePath, r))
  /\ slices' = <<>>
  /\ UNCHANGED <<args, disk, listing, idx>>

\* lines 146-147: extract from one image
ExtractImage ==
  /\ pc = "start"
  /\ args.command = "extract2D"
  /\ args.imagePath # None
  /\ \E r \in {extract_2d_slices(args.imagePath, args.location, args.N,
                                 args.outputPath)} :
         /\ fs' = WriteAll(fs, r.writes)
         /\ ret' = r.ret
         /\ slices' = r.slices
         /\ pc' = IF r.ok THEN "done" ELSE "error"
         /\ calls' = Append(calls, Call(args.imagePath, r))
  /\ UNCHANGED <<args, disk, listing, idx>>

\* lines 140 and 149: os.listdir, entering the loop
ListFolder ==
  /\ pc = "start"
  /\ args.imagePath = None
  /\ pc' = "loop"
  /\ idx' = 1
  /\ UNCHANGED <<args, disk, listing, fs, ret, slices, calls>>

\* One iteration of the loop over the listing whose name does not match
SkipFile ==
  /\ pc = "loop"
  /\ idx <= Len(listing)
  /\ ~endswith(listing[idx], ImageSuffixes)
  /\ idx' = idx + 1
  /\ UNCHANGED <<pc, args, disk, listing, fs, ret, slices, calls>>

\* lines 141-143: one iteration that resizes a matching file
ResizeFile ==
  /\ pc = "loop"
  /\ args.command = "resize"
  /\ idx <= Len(listing)
  /\ endswith(listing[idx], ImageSuffixes)
  /\ \E path \in {join(args.folderPath, listing[idx])} :
       \E r \in {resize_image(path, args.newSize, args.outputPath, args.outputFormat)} :
         /\ fs' = WriteAll(fs, r.writes)
         /\ ret' = r.ret
         /\ pc' = AfterCall(r.ok)
         /\ calls' = Append(calls, Call(path, r))
  /\ idx' = idx + 1
  /\ slices' = <<>>
  /\ UNCHANGED <<args, disk, listing>>

\* lines 150-152: one iteration that extracts from a matching file
ExtractFile ==
  /\ pc = "loop"
  /\ args.command = "extract2D"
  /\ idx <= Len(listing)
  /\ endswith(listing[idx], ImageSuffixes)
  /\ \E path \in {join(args.folderPath, listing[idx])} :
       \E r \in {extract_2d_slices(path, args.location, args.N, args.outputPath)} :
         /\ fs' = WriteAll(fs, r.writes)
         /\ ret' = r.ret
         /\ slices' = r.slices
         /\ pc' = AfterCall(r.ok)
         /\ calls' = Append(calls, Call(path, r))
  /\ idx' = idx + 1
  /\ UNCHANGED <<args, disk, listing>>

\* the listing is exhausted: main returns
EndFolder ==
  /\ pc = "loop"
  /\ idx > Len(listing)
  /\ pc' = "done"
  /\ UNCHANGED <<args, disk, listing, idx, fs, ret, slices, calls>>

(***************************************************************************)
(* Inputs.  Each specification starts main after parse_args, with one      *)
(* command line and one content of the input and output directories.       *)
(***************************************************************************)
MaxDim == 5        \* image and target sizes per axis: up to MaxDim voxels
MaxExtent == 3     \* slice extraction: array extents 1..MaxExtent
MaxN == 3          \* slice extraction: --N in 1..MaxN
Margin == 1        \* slice extraction: centers up to Margin outside the array
MaxFiles == 3      \* folder mode: up to MaxFiles names in the listing

Origin0 == <<"0.0", "0.0", "0.0">>
Direction0 == <<"1.0", "0.0", "0.0", "0.0", "1.0", "0.0", "0.0", "0.0", "1.0">>

Image(size, spacing, fault) ==
  [size |-> size, spacing |-> spacing, origin |-> Origin0,
   direction |-> Direction0, fault |-> fault]

\* spacings in mm: (1.0, 1.0, 2.0), (3.0, 3.0, 3.0), (0.7, 0.7, 1.5)
Spacings ==
  { <<FromInt(1), FromInt(1), FromInt(2)>>,
    <<FromInt(3), FromInt(3), FromInt(3)>>,
    <<TrueDiv(7, 10), TrueDiv(7, 10), TrueDiv(3, 2)>> }

ExampleSize == <<64, 64, 32>>
ExampleNewSize == <<32, 32, 16>>

\* volumes with square slices
Sizes == {<<a, a, c>> : a \in 1..MaxDim, c \in 1..MaxDim} \cup {ExampleSize}

\* --newSize: two or three entries, zero included
NewSizes ==
  {<<a, b>> : a \in 0..MaxDim, b \in 0..MaxDim}
    \cup {<<a, b, c>> : a \in 0..MaxDim, b \in 0..MaxDim, c \in 0..MaxDim}
    \cup {ExampleNewSize}

Str_nii == <<"n", "i", "i">>
Str_mha == <<"m", "h", "a">>
Str_gz == <<"g", "z">>
Str_out == <<"/", "o", "u", "t">>
Str_scan == <<"s", "c", "a", "n">>

\* source directories, base names and extensions of the input file
SrcDirs == { <<>>, <<"/", "d">>, <<"d", ".", "x">> }
Bases == { Str_scan, Str_scan \o <<".">> \o Str_nii, <<".", "h">> }
Exts == { Str_nii, Str_gz, <<>> }
OutDirs == { Str_out, <<"o">>, <<"/", "o", "/">>, <<>> }
OutFormats == { None, Str_mha, <<>> }

FileNames == {b \o <<".">> \o f : b \in Bases, f \in Exts} \cup {Str_scan}

\* a file some earlier run left in the output directory
OldFile == [kind |-> "old"]

ExamplePath == <<"/", "d", "/">> \o Str_scan \o <<".">> \o Str_nii

ResizeArgs(imagePath, newSize, outputPath, outputFormat) ==
  [command |-> "resize", imagePath |-> imagePath, folderPath |-> None,
   newSize |-> newSize, outputPath |-> outputPath, outputFormat |-> outputFormat,
   location |-> None, N |-> 1]

ExtractArgs(imagePath, location, n, outputPath) ==
  [command |-> "extract2D", imagePath |-> imagePath, folderPath |-> None,
   newSize |-> None, outputPath |-> outputPath, outputFormat |-> None,
   location |-> location, N |-> n]

\* resize --imagePath: every geometry on one file name, and every file name
\* on one geometry
InitResize ==
  /\ pc = "start"
  /\ listing = <<>> /\ idx = 0 /\ ret = <<>> /\ slices = <<>> /\ calls = <<>>
  /\ \/ /\ \E size \in Sizes, spacing \in Spacings :
             disk = [p \in {ExamplePath} |-> Image(size, spacing, "none")]
        /\ \E newSize \in NewSizes :
             args = ResizeArgs(ExamplePath, newSize, Str_out, None)
        /\ fs = [p \in {} |-> OldFile]
     \/ /\ \E d \in SrcDirs, name \in FileNames, fault \in {"none", "read", "write"} :
             disk = [p \in {join(d, name)} |->
                       Image(ExampleSize, <<FromInt(1), FromInt(1), FromInt(2)>>, fault)]
        /\ \E newSize \in {ExampleNewSize, <<32, 32>>, <<0, 32, 16>>},
              out \in OutDirs, fmt \in OutFormats :
             \E p \in DOMAIN disk : args = ResizeArgs(p, newSize, out, fmt)
        /\ \E old \in SUBSET {join(args.outputPath, ResizedName(Str_scan, Str_nii)),
                               join(args.outputPath, MetaName(Str_scan))} :
             fs = [p \in old |-> OldFile]

NextResize == ResizeImage

SpecResize == InitResize /\ [][NextResize]_vars

(***************************************************************************)
(* Claims about resize_image (checked under SpecResize)                    *)
(***************************************************************************)
\* The image resize_image wrote, when it returned
Resized == fs[ret[1]]

\* new_spacing[i] * new_size[i] and original_spacing[i] * original_size[i],
\* as Python evaluates them
NewExtent(i) == FMul(Resized.spacing[i], FromInt(args.newSize[i]))
OldExtent(i) ==
  FMul(disk[args.imagePath].spacing[i], FromInt(disk[args.imagePath].size[i]))

\* The next float above x, and the next float below it.
FSucc(x) ==
  LET s == BigAdd(x.sig, <<1>>)
  IN  IF BigBitLen(s) > MantBits
        THEN [sig |-> BigShiftRight(s, 1).q, exp |-> x.exp + 1]
        ELSE [sig |-> s, exp |-> x.exp]

FPred(x) ==
  LET s == BigDec(x.sig)
  IN  IF BigBitLen(s) < MantBits
        THEN [sig |-> BigAdd(BigMulSmall(s, 2), <<1>>), exp |-> x.exp - 1]
        ELSE [sig |-> s, exp |-> x.exp]

RECURSIVE StepsUp(_, _)
StepsUp(x, k) == IF k = 0 THEN x ELSE StepsUp(FSucc(x), k - 1)

RECURSIVE StepsDown(_, _)
StepsDown(x, k) == IF k = 0 THEN x ELSE StepsDown(FPred(x), k - 1)

\* x is y or one of the k floats next to y on either side
WithinUlps(x, y, k) ==
  \E j \in 0..k : x = StepsUp(y, j) \/ x = StepsDown(y, j)

\* three roundings in new_spacing * new_size and one in the original extent
UlpTolerance == 3 + 1

\* C1 as stated: for a target size with only positive entries, the new
\* spacing times the new size equals the original spacing times the original
\* size on every axis of the target size.
C1_ExtentEqual ==
  pc = "done" => \A i \in UsedDims(args.newSize) : NewExtent(i) = OldExtent(i)

\* C1, amended: for a target size with only positive entries, the new spacing
\* times the new size equals the original spacing times the original size on
\* every axis of the target size up to floating-point rounding: the two
\* products are at most UlpTolerance floats apart.
C1_ExtentWithinTolerance ==
  pc = "done" =>
    \A i \in UsedDims(args.newSize) : WithinUlps(NewExtent(i), OldExtent(i), UlpTolerance)

\* The example: size (64,64,32), spacing (1,1,2), newSize [32,32,16] was
\* resized, and the new spacing is (2,2,4).
C1_Witness ==
  /\ pc = "done"
  /\ args.newSize = ExampleNewSize
  /\ disk[args.imagePath].size = ExampleSize
  /\ disk[args.imagePath].spacing = <<FromInt(1), FromInt(1), FromInt(2)>>
  /\ Resized.spacing = <<FromInt(2), FromInt(2), FromInt(4)>>

\* the files resize_image has written: everything but what was there before
Written == {p \in DOMAIN fs : fs[p] # OldFile}

IsDirName(d) == d # <<>> /\ d[Len(d)] # "/"

FilesAsClaimed(d, b, f) ==
  LET D  == args.outputPath
      F  == IF args.outputFormat # None THEN args.outputFormat ELSE f
      e1 == D \o <<"/">> \o b
              \o <<"_", "r", "e", "s", "i", "z", "e", "d", ".">> \o F
      e2 == D \o <<"/">> \o b
              \o <<"_", "r", "e", "s", "i", "z", "e", "d", "_", "m", "e", "t", "a",
                   ".", "j", "s", "o", "n">>
  IN  /\ ret = <<e1, e2>>
      /\ Written = {e1, e2}
      /\ fs[e1].kind = "image"
      /\ fs[e2].kind = "meta"

\* C5: for a source file named B.F in any directory (or named B, without an
\* extension, F empty) and an output directory D, resize_image writes and
\* returns exactly D/B_resized.<output_format, or F when none is given> and
\* D/B_resized_meta.json.
C5_OutputPaths ==
  (pc = "done" /\ IsDirName(args.outputPath)) =>
    /\ \A d \in SrcDirs, b \in Bases, f \in Exts :
         args.imagePath = join(d, b \o <<".">> \o f) => FilesAsClaimed(d, b, f)
    /\ \A d \in SrcDirs :
         args.imagePath = join(d, Str_scan) => FilesAsClaimed(d, Str_scan, <<>>)

\* scan.nii resized into /out: /out/scan_resized.nii and
\* /out/scan_resized_meta.json are returned and written.
C5_Witness ==
  /\ pc = "done"
  /\ args.imagePath = Str_scan \o <<".">> \o Str_nii
  /\ args.outputPath = Str_out
  /\ args.outputFormat = None
  /\ ret = << <<"/", "o", "u", "t", "/", "s", "c", "a", "n", "_", "r", "e", "s",
                "i", "z", "e", "d", ".", "n", "i", "i">>,
              <<"/", "o", "u", "t", "/", "s", "c", "a", "n", "_", "r", "e", "s",
                "i", "z", "e", "d", "_", "m", "e", "t", "a", ".", "j", "s", "o", "n">> >>
  /\ Written = {ret[1], ret[2]}

HasZero(new_size) ==
  \/ new_size[1] = 0
  \/ new_size[2] = 0
  \/ Len(new_size) = 3 /\ new_size[3] = 0

\* C7: when the target size has a zero in a dimension resize_image uses, the
\* call ends in an error, and no file is created or overwritten.
C7_ZeroSizeFails ==
  (pc # "start" /\ HasZero(args.newSize)) => (pc = "error" /\ Written = {})

\* A zero target dimension ended the call in an error, the files of an
\* earlier run (at the paths this call would write) still in place.
C7_Witness ==
  /\ pc = "error"
  /\ HasZero(args.newSize)
  /\ disk[args.imagePath].fault = "none"
  /\ Cardinality(DOMAIN fs) = 2
  /\ \A p \in DOMAIN fs : fs[p] = OldFile

(***************************************************************************)
(* extract2D --imagePath                                                   *)
(***************************************************************************)
ExampleVolume == <<10, 10, 10>>

Volumes ==
  {<<x, y, z>> : x \in 1..MaxExtent, y \in 1..MaxExtent, z \in 1..MaxExtent}
    \cup {ExampleVolume}

\* --location: array indices, up to Margin outside the smallest and the
\* largest bounded array
Locations ==
  LET r == (0 - Margin - 1)..(MaxExtent + Margin)
  IN  {<<a, b, c>> : a \in r, b \in r, c \in r} \cup {None}

InitExtract ==
  /\ pc = "start"
  /\ listing = <<>> /\ idx = 0 /\ ret = <<>> /\ slices = <<>> /\ calls = <<>>
  /\ fs = [p \in {} |-> OldFile]
  /\ \/ \E size \in Volumes :
          disk = [p \in {ExamplePath} |-> Image(size, <<FromInt(1), FromInt(1), FromInt(2)>>, "none")]
     \/ disk = [p \in {ExamplePath} |->
                  Image(ExampleVolume, <<FromInt(1), FromInt(1), FromInt(2)>>, "read")]
  /\ \E location \in Locations, n \in 0..MaxN :
       args = ExtractArgs(ExamplePath, location, n, Str_out)

NextExtract == ExtractImage

SpecExtract == InitExtract /\ [][NextExtract]_vars

(***************************************************************************)
(* Claims about extract_2d_slices (checked under SpecExtract)              *)
(***************************************************************************)
\* the array's extent on axis k (0-based): the image's size, axes reversed
Extent(k) == disk[args.imagePath].size[3 - k]

\* the center the call used on axis k (0-based)
CenterOn(k) == IF args.location = None THEN Extent(k) \div 2 ELSE args.location[k + 1]

Half == args.N \div 2

SlicesOf(view) == SelectSeq(slices, LAMBDA sl : sl.view = view)
IndicesOf(view) == [j \in 1..Len(SlicesOf(view)) |-> SlicesOf(view)[j].index]

\* the window of a view reaches outside the array
Clipped(k) == CenterOn(k) - Half < 0 \/ CenterOn(k) + Half > Extent(k) - 1

Ran == pc = "done" /\ args.command = "extract2D"

\* C2 as stated: for N >= 1 every view yields at most N slices, fewer than
\* N only when its window is clipped, and at most 3 * N files are produced.
C2_AtMostNPerView ==
  (Ran /\ args.N >= 1) =>
    /\ \A k \in 0..2 :
         /\ Len(SlicesOf(Views[k + 1])) <= args.N
         /\ Len(SlicesOf(Views[k + 1])) < args.N => Clipped(k)
    /\ Len(ret) <= 3 * args.N

\* C9 as stated: for an even N, an unclipped window holds more indices on one
\* side of the center than on the other.
C9_EvenWindowAsymmetric ==
  (Ran /\ args.N >= 1 /\ args.N % 2 = 0) =>
    \A k \in 0..2 :
      ~Clipped(k) =>
        LET ix    == IndicesOf(Views[k + 1])
            below == {j \in 1..Len(ix) : ix[j] < CenterOn(k)}
            above == {j \in 1..Len(ix) : ix[j] > CenterOn(k)}
        IN  Cardinality(below) # Cardinality(above)

OutOfRange(k) ==
  args.location # None /\ (CenterOn(k) < 0 \/ CenterOn(k) > Extent(k) - 1)

NearestBoundary(k) == IF CenterOn(k) < 0 THEN 0 ELSE Extent(k) - 1

Readable == disk[args.imagePath].fault = "none"

HasIndex(view, i) == \E j \in 1..Len(slices) : slices[j].view = view /\ slices[j].index = i

\* C3 as stated: with the center out of range on an axis the call does not
\* fail, and that axis's view still yields at least one slice, the one at the
\* nearest boundary index.
C3_OutOfRangeYieldsBoundary ==
  (pc # "start" /\ args.command = "extract2D" /\ Readable) =>
    /\ pc = "done"
    /\ \A k \in 0..2 : OutOfRange(k) => HasIndex(Views[k + 1], NearestBoundary(k))

\* the window [center - N//2, center + N//2] meets the array
Overlaps(k) == CenterOn(k) + Half >= 0 /\ CenterOn(k) - Half <= Extent(k) - 1

\* C3, amended: with the center out of range on an axis the call does not
\* fail; that axis's view yields the slice at the nearest boundary index when
\* the window [center - N//2, center + N//2] meets the array, and no slice
\* at all when it does not.
C3_OutOfRangeClipped ==
  (pc # "start" /\ args.command = "extract2D" /\ Readable) =>
    /\ pc = "done"
    /\ \A k \in 0..2 :
         OutOfRange(k) =>
           IF Overlaps(k)
             THEN HasIndex(Views[k + 1], NearestBoundary(k))
             ELSE SlicesOf(Views[k + 1]) = <<>>

\* A center below the array with N = 1 left the axial view empty, the other
\* two views giving their slice.
C3_Witness ==
  /\ Ran
  /\ args.location # None
  /\ args.N = 1
  /\ args.location[1] = 0 - 1
  /\ SlicesOf("axial") = <<>>
  /\ Len(SlicesOf("coronal")) = 1

Digit(k) == <<"0", "1", "2", "3", "4", "5", "6", "7", "8", "9">>[k + 1]

\* C4: without a location and with N = 1, a volume with extents >= 1 yields
\* exactly one slice per view, axial_<e0//2>, coronal_<e1//2> and
\* sagittal_<e2//2>: exactly 3 output files.
C4_DefaultCenterOneSlice ==
  (Ran /\ args.location = None /\ args.N = 1) =>
    /\ Len(slices) = 3
    /\ slices[1].name = <<"a", "x", "i", "a", "l", "_", Digit(Extent(0) \div 2)>>
    /\ slices[2].name = <<"c", "o", "r", "o", "n", "a", "l", "_", Digit(Extent(1) \div 2)>>
    /\ slices[3].name = <<"s", "a", "g", "i", "t", "t", "a", "l", "_", Digit(Extent(2) \div 2)>>
    /\ \A j \in 1..3 : slices[j].axis = j - 1 /\ slices[j].index = Extent(j - 1) \div 2
    /\ Len(ret) = 3
    /\ Cardinality(DOMAIN fs) = 3

\* The example: shape (10,10,10), no location, N = 1 gave axial_5, coronal_5
\* and sagittal_5.
C4_Witness ==
  /\ Ran
  /\ args.location = None /\ args.N = 1
  /\ disk[args.imagePath].size = ExampleVolume
  /\ Len(slices) = 3
  /\ slices[1].name = <<"a", "x", "i", "a", "l", "_", "5">>
  /\ slices[2].name = <<"c", "o", "r", "o", "n", "a", "l", "_", "5">>
  /\ slices[3].name = <<"s", "a", "g", "i", "t", "t", "a", "l", "_", "5">>
  /\ Cardinality(DOMAIN fs) = 3

Str_folder == <<"/", "d">>

\* names in the input folder: s.nii, s.mha, t.nii.gz, and xnii (no suffix)
FolderNames ==
  { <<"s", ".">> \o Str_nii,
    <<"s", ".">> \o Str_mha,
    <<"t", ".">> \o Str_nii \o <<".">> \o Str_gz,
    <<"x">> \o Str_nii }

\* os.listdir: each name once, in any order
Listings ==
  {l \in UNION {[1..n -> FolderNames] : n \in 0..MaxFiles} :
     \A i, j \in 1..Len(l) : i # j => l[i] # l[j]}

FolderSize == <<4, 4, 2>>

FolderArgs ==
  {[ResizeArgs(None, newSize, Str_out, fmt) EXCEPT !.folderPath = Str_folder] :
     newSize \in {<<2, 2, 2>>, <<2, 0>>}, fmt \in {None, Str_nii}}
    \cup
  {[ExtractArgs(None, None, n, Str_out) EXCEPT !.folderPath = Str_folder] :
     n \in {1, 2}}

InitFolder ==
  /\ pc = "start"
  /\ idx = 0 /\ ret = <<>> /\ slices = <<>> /\ calls = <<>>
  /\ fs = [p \in {} |-> OldFile]
  /\ listing \in Listings
  /\ args \in FolderArgs
  /\ \E fault \in [{join(Str_folder, listing[i]) : i \in 1..Len(listing)}
                     -> {"none", "read", "write"}] :
       disk = [p \in DOMAIN fault |->
                 Image(FolderSize, <<FromInt(1), FromInt(1), FromInt(2)>>, fault[p])]

NextFolder == ListFolder \/ SkipFile \/ ResizeFile \/ ExtractFile \/ EndFolder

SpecFolder == InitFolder /\ [][NextFolder]_vars

(***************************************************************************)
(* Claims about folder mode (checked under SpecFolder)                     *)
(***************************************************************************)
\* name ends in suf
EndsIn(name, suf) == \E k \in 0..Len(name) : name = SubSeq(name, 1, k) \o suf

IsImageName(name) ==
  \/ EndsIn(name, <<".", "n", "i", "i">>)
  \/ EndsIn(name, <<".", "n", "i", "i", ".", "g", "z">>)
  \/ EndsIn(name, <<".", "m", "h", "a">>)
  \/ EndsIn(name, <<".", "m", "h", "d">>)

\* the names the loop has taken from the listing so far
Taken == SubSeq(listing, 1, IF idx > Len(listing) THEN Len(listing) ELSE idx - 1)

TakenImages == SelectSeq(Taken, IsImageName)

InFolderMode == args.imagePath = None /\ pc # "start"

\* C6: in folder mode the files whose names end in .nii, .nii.gz, .mha or
\* .mhd are processed one at a time in listing order, each at most once;
\* a failing file is the last one processed (the batch aborts there), and
\* what the earlier files wrote stays in the output directory.
C6_FolderOrderAndAbort ==
  InFolderMode =>
    /\ Len(calls) = Len(TakenImages)
    /\ \A j \in 1..Len(calls) :
         /\ calls[j].path = args.folderPath \o <<"/">> \o TakenImages[j]
         /\ \A k \in 1..Len(calls) : k # j => calls[k].path # calls[j].path
         /\ j < Len(calls) => calls[j].ok
         /\ calls[j].wrote \subseteq DOMAIN fs
         /\ (calls[j].ok /\ args.command = "resize") => Cardinality(calls[j].wrote) = 2
    /\ pc = "error" <=> (calls # <<>> /\ ~calls[Len(calls)].ok)
    /\ pc = "done" => idx = Len(listing) + 1

\* A batch that stopped at its second image: the first one's files are in
\* place, and an image later in the listing was never processed.
C6_Witness ==
  /\ InFolderMode
  /\ pc = "error"
  /\ Len(calls) = 2
  /\ calls[1].wrote # {} /\ calls[1].wrote \subseteq DOMAIN fs
  /\ idx <= Len(listing)
  /\ IsImageName(listing[Len(listing)])

\* C10 as stated: two distinct input files of one folder-mode run never
\* write the same output path.
C10_DisjointOutputs ==
  InFolderMode =>
    \A j, k \in 1..Len(calls) : j # k => calls[j].wrote \cap calls[k].wrote = {}

Init == InitResize \/ InitExtract \/ InitFolder

Next ==
  \/ ResizeImage
  \/ ExtractImage
  \/ ListFolder
  \/ SkipFile
  \/ ResizeFile
  \/ ExtractFile
  \/ EndFolder

Spec == Init /\ [][Next]_vars
=============================================================================
